---------------------------- MODULE Spec2Model ----------------------------
(***************************************************************************)
(* A model of extract-text.py: the extension dispatcher process_file, the  *)
(* four extractors, the directory scanner find_supported_files and the     *)
(* two modes of main (one file argument, or a confirmed batch).            *)
(*                                                                         *)
(* Paths are sequences of one-character strings, so that os.path.splitext, *)
(* str.lower and str.endswith are computed as Python computes them.  Texts *)
(* are sequences of tokens: a word, a blank, a newline or a markup tag     *)
(* ("<p>", "</p>").                                                        *)
(* The file system is a function from the paths that exist to their        *)
(* contents.                                                               *)
(***************************************************************************)
EXTENDS Naturals, Sequences, FiniteSets, TLC

VARIABLES
    fs,        \* the file system: path |-> content, for the paths that exist
    deps,      \* the importable parsing packages, a subset of {"docx", "markdown"}
    call,      \* the last process_file call: its argument, what it did and printed
    pc,        \* batch mode: where main is ("idle", "prompt", "loop")
    files,     \* batch mode: the list find_supported_files returned
    idx,       \* batch mode: position of the for loop in files
    trace,     \* batch mode: the process_file calls of the running batch, in order
    prev,      \* batch mode: the last finished confirmed batch
    fsStart,   \* batch mode: the file system when the running batch was scanned
    procs,     \* concurrent callers: each invocation's position and locals
    fs0,       \* concurrent callers: the file system before the invocations
    writes,    \* concurrent callers: how often each path was opened for writing
    msg,       \* MHTML extractor: the parsed message (or the parse failure)
    mpc,       \* MHTML extractor: "ready", "parsed", "done"
    result,    \* MHTML extractor: the returned text
    reported   \* MHTML extractor: the failure messages printed

vars == <<fs, deps, call, pc, files, idx, trace, prev, fsStart,
          procs, fs0, writes, msg, mpc, result, reported>>

fsVars    == <<fs, deps, call>>
batchVars == <<pc, files, idx, trace, prev, fsStart>>
concVars  == <<procs, fs0, writes>>
mhtmlVars == <<msg, mpc, result, reported>>

(***************************************************************************)
(* Bounds of the model.                                                    *)
(***************************************************************************)
MaxFiles == 2      \* files present in the directory initially
MaxParts == 2      \* sub-parts of a multipart MHTML message

(***************************************************************************)
(* Strings.                                                                *)
(***************************************************************************)
Max(S) == CHOOSE x \in S : \A y \in S : y <= x

\* str.lower(), on the letters the model's names use
LowerChar(c) ==
    CASE c = "D" -> "d"
      [] c = "O" -> "o"
      [] c = "C" -> "c"
      [] c = "X" -> "x"
      [] c = "T" -> "t"
      [] c = "Y" -> "y"
      [] c = "E" -> "e"
      [] c = "S" -> "s"
      [] OTHER   -> c

lower(s) == [i \in 1..Len(s) |-> LowerChar(s[i])]

\* str.rfind(c), 1-based; 0 when c does not occur (Python: -1)
rfind(s, c) == Max({0} \cup {i \in 1..Len(s) : s[i] = c})

\* os.path.splitext (genericpath._splitext): the extension starts at the last
\* dot of the last path component; leading dots of that component do not count.
splitext(p) ==
    LET sepIndex == rfind(p, "/")
        dotIndex == rfind(p, ".")
    IN  IF /\ dotIndex > sepIndex
           /\ \E k \in (sepIndex + 1)..(dotIndex - 1) : p[k] # "."
        THEN <<SubSeq(p, 1, dotIndex - 1), SubSeq(p, dotIndex, Len(p))>>
        ELSE <<p, <<>> >>

\* str.endswith(suffix)
endswith1(s, suffix) ==
    /\ Len(suffix) <= Len(s)
    /\ SubSeq(s, Len(s) - Len(suffix) + 1, Len(s)) = suffix

\* str.endswith(tuple of suffixes)
endswith(s, suffixes) == \E suffix \in suffixes : endswith1(s, suffix)

\* str.strip(), for the blank
RECURSIVE lstrip(_)
lstrip(s) == IF s # <<>> /\ Head(s) = " " THEN lstrip(Tail(s)) ELSE s

RECURSIVE rstrip(_)
rstrip(s) ==
    IF s # <<>> /\ s[Len(s)] = " " THEN rstrip(SubSeq(s, 1, Len(s) - 1)) ELSE s

strip(s) == rstrip(lstrip(s))

\* sep.join(parts)
RECURSIVE join(_, _)
join(sep, parts) ==
    IF parts = <<>> THEN <<>>
    ELSE IF Len(parts) = 1 THEN parts[1]
    ELSE parts[1] \o sep \o join(sep, Tail(parts))

\* os.path.join(dirpath, filename)
path_join(dirpath, filename) == dirpath \o <<"/">> \o filename

ExtMhtml == <<".", "m", "h", "t", "m", "l">>
ExtDocx  == <<".", "d", "o", "c", "x">>
ExtMd    == <<".", "m", "d">>
ExtHtml  == <<".", "h", "t", "m", "l">>
ExtTxt   == <<".", "t", "x", "t">>

supported_exts == {ExtMhtml, ExtDocx, ExtMd, ExtHtml}


(***************************************************************************)
(* Markup stripping: BeautifulSoup(html, 'html.parser')                    *)
(*                       .get_text(separator="\n", strip=True).            *)
(* A document is a sequence of tokens; a tag is one token.  The strings of *)
(* the document are the maximal runs of tokens between tags; each is       *)
(* stripped, the empty ones are dropped, the rest joined by the separator. *)
(***************************************************************************)
NL == "\n"

Tags == {"<p>", "</p>"}

RECURSIVE text_nodes(_, _)
text_nodes(html, cur) ==
    IF html = <<>> THEN <<cur>>
    ELSE IF Head(html) \in Tags THEN <<cur>> \o text_nodes(Tail(html), <<>>)
    ELSE text_nodes(Tail(html), Append(cur, Head(html)))

get_text(html) ==
    LET nodes    == text_nodes(html, <<>>)
        stripped == [i \in 1..Len(nodes) |-> strip(nodes[i])]
        NonEmpty(x) == x # <<>>
    IN  join(<<NL>>, SelectSeq(stripped, NonEmpty))

(***************************************************************************)
(* File contents.  DocGood is a well-formed document, DocBad one that the  *)
(* parsing library rejects (it raises while reading or decoding it).       *)
(***************************************************************************)
DocGood == <<"<p>", "Hello", "</p>", "<p>", "World", "</p>">>
DocBad  == <<"\\x00">>
OldText == <<"old">>

Docs == {DocGood, DocBad}

(***************************************************************************)
(* MIME messages, as email.parser.BytesParser(policy.default) returns      *)
(* them.  A message is [parse_ok, multipart, parts]: parts is what walk()  *)
(* yields after the root of a multipart message, or the single body.       *)
(***************************************************************************)
HtmlPart    == [ctype |-> "text/html",  body |-> DocGood, charset_ok |-> TRUE]
PlainPart   == [ctype |-> "text/plain", body |-> <<"Raw">>, charset_ok |-> TRUE]
UndecPart   == [ctype |-> "text/plain", body |-> <<"Raw">>, charset_ok |-> FALSE]
UndecHtml   == [ctype |-> "text/html",  body |-> DocGood, charset_ok |-> FALSE]
CssPart     == [ctype |-> "text/css",   body |-> <<"css">>, charset_ok |-> TRUE]
ImagePart   == [ctype |-> "image/png",  body |-> <<"png">>, charset_ok |-> TRUE]
Container   == [ctype |-> "multipart/related", body |-> <<>>, charset_ok |-> TRUE]

PartKinds == {HtmlPart, PlainPart, UndecPart, UndecHtml, CssPart, ImagePart, Container}

\* part.get_content() under policy.default (raw_data_manager): text/* decodes
\* to str and raises LookupError on an unknown charset; image, audio, video
\* and application give bytes; multipart raises KeyError.
get_content(part) ==
    IF part.ctype \in {"text/html", "text/plain", "text/css"}
    THEN IF part.charset_ok
         THEN [kind |-> "str", val |-> part.body]
         ELSE [kind |-> "raise", val |-> <<>>]
    ELSE IF part.ctype = "image/png"
    THEN [kind |-> "bytes", val |-> part.body]
    ELSE [kind |-> "raise", val |-> <<>>]

\* msg.walk(): the message itself, then its sub-parts in order
walk(m) == <<Container>> \o m.parts

\* One iteration of the loop over walk(): what the part appends to text_parts
\* (lines 40-46)
visit_part(part) ==
    IF part.ctype = "text/html"
    THEN LET c == get_content(part)
         IN  IF c.kind = "raise" THEN [raised |-> TRUE, frags |-> <<>>]
             ELSE [raised |-> FALSE, frags |-> <<[kind |-> "str", val |-> get_text(c.val)]>>]
    ELSE IF part.ctype = "text/plain"
    THEN LET c == get_content(part)
         IN  IF c.kind = "raise" THEN [raised |-> TRUE, frags |-> <<>>]
             ELSE [raised |-> FALSE, frags |-> <<c>>]
    ELSE [raised |-> FALSE, frags |-> <<>>]

\* The loop over walk() (lines 39-46)
RECURSIVE collect_parts(_)
collect_parts(parts) ==
    IF parts = <<>> THEN [raised |-> FALSE, frags |-> <<>>]
    ELSE LET v == visit_part(Head(parts))
         IN  IF v.raised THEN [raised |-> TRUE, frags |-> <<>>]
             ELSE LET r == collect_parts(Tail(parts))
                  IN  [raised |-> r.raised,
                       frags  |-> IF r.raised THEN <<>> ELSE v.frags \o r.frags]

\* The single body of a message that is not multipart (lines 48-53)
collect_single(part) ==
    LET c == get_content(part)
    IN  IF c.kind = "raise" THEN [raised |-> TRUE, frags |-> <<>>]
        ELSE IF part.ctype = "text/html"
        THEN [raised |-> FALSE, frags |-> <<[kind |-> "str", val |-> get_text(c.val)]>>]
        ELSE [raised |-> FALSE, frags |-> <<c>>]

\* "\n\n".join(text_parts): TypeError when an item is bytes (line 54)
join_text_parts(text_parts) ==
    IF \E i \in 1..Len(text_parts) : text_parts[i].kind # "str"
    THEN [raised |-> TRUE, text |-> <<>>]
    ELSE [raised |-> FALSE,
          text   |-> join(<<NL, NL>>, [i \in 1..Len(text_parts) |-> text_parts[i].val])]

\* extract_text_from_mhtml after the parse: the second try block (lines 36-57)
mhtml_text(m) ==
    LET c == IF m.multipart THEN collect_parts(walk(m)) ELSE collect_single(m.parts[1])
        j == join_text_parts(c.frags)
    IN  IF c.raised \/ j.raised
        THEN [text |-> <<>>, printed |-> <<"FailedExtract">>]
        ELSE [text |-> j.text, printed |-> <<>>]

\* A variant of extract_text_from_mhtml without the second try block: an
\* exception of the traversal is not caught and ends the process
extract_text_from_mhtml_uncaught(m) ==
    IF ~m.parse_ok
    THEN [text |-> <<>>, printed |-> <<"FailedParse">>, status |-> "failed"]
    ELSE LET r == mhtml_text(m)
         IN  [text |-> r.text, printed |-> <<>>,
              status |-> IF r.printed = <<>> THEN "ok" ELSE "exit"]

\* extract_text_from_mhtml (lines 27-57): [text, printed, status]
extract_text_from_mhtml(m) ==
    IF ~m.parse_ok
    THEN [text |-> <<>>, printed |-> <<"FailedParse">>, status |-> "failed"]
    ELSE LET r == mhtml_text(m)
         IN  [text |-> r.text, printed |-> r.printed,
              status |-> IF r.printed = <<>> THEN "ok" ELSE "failed"]

(***************************************************************************)
(* The extractors for DOCX, Markdown and HTML.  Each returns               *)
(* [text, printed, status]: status is "ok", "failed" (the except branch)   *)
(* or "exit" (sys.exit(1) on a missing package).                           *)
(***************************************************************************)
\* BytesParser(policy=policy.default).parse(f) of a file of the model
BytesParse(content) ==
    IF content = DocBad
    THEN [parse_ok |-> TRUE, multipart |-> TRUE, parts |-> <<UndecPart>>]
    ELSE [parse_ok |-> TRUE, multipart |-> TRUE, parts |-> <<HtmlPart, PlainPart>>]

\* docx.Document(file_path).paragraphs, as their texts
paragraphs(content) == text_nodes(content, <<>>)

\* markdown.markdown(md_content): the source rendered as a paragraph
markdown(md_content) == <<"<p>">> \o md_content \o <<"</p>">>

\* extract_text_from_docx (lines 59-72)
extract_text_from_docx(content, dps) ==
    IF "docx" \notin dps
    THEN [text |-> <<>>, printed |-> <<"MissingDependency">>, status |-> "exit"]
    ELSE IF content = DocBad
    THEN [text |-> <<>>, printed |-> <<"FailedRead">>, status |-> "failed"]
    ELSE LET HasText(t) == strip(t) # <<>>
         IN  [text |-> join(<<NL>>, SelectSeq(paragraphs(content), HasText)),
              printed |-> <<>>, status |-> "ok"]

\* extract_text_from_md (lines 74-89)
extract_text_from_md(content, dps) ==
    IF "markdown" \notin dps
    THEN [text |-> <<>>, printed |-> <<"MissingDependency">>, status |-> "exit"]
    ELSE IF content = DocBad
    THEN [text |-> <<>>, printed |-> <<"FailedRead">>, status |-> "failed"]
    ELSE [text |-> get_text(markdown(content)), printed |-> <<>>, status |-> "ok"]

\* extract_text_from_html (lines 91-100)
extract_text_from_html(content) ==
    IF content = DocBad
    THEN [text |-> <<>>, printed |-> <<"FailedRead">>, status |-> "failed"]
    ELSE [text |-> get_text(content), printed |-> <<>>, status |-> "ok"]

Packages == {"docx", "markdown"}

\* The extractors' results on the documents of the model, computed once
MhtmlResult == [c \in Docs |-> extract_text_from_mhtml(BytesParse(c))]
DocxResult  == [c \in Docs, dps \in SUBSET Packages |-> extract_text_from_docx(c, dps)]
MdResult    == [c \in Docs, dps \in SUBSET Packages |-> extract_text_from_md(c, dps)]
HtmlResult  == [c \in Docs |-> extract_text_from_html(c)]

(***************************************************************************)
(* process_file.                                                           *)
(***************************************************************************)
\* os.path.exists
exists(fsys, p) == p \in DOMAIN fsys

\* ext = os.path.splitext(file_path)[1].lower()
file_ext(file_path) == lower(splitext(file_path)[2])

\* A variant of output_file that appends ".txt" without splitting off the extension
output_file_unsplit(file_path) == file_path \o ExtTxt

\* output_file = os.path.splitext(file_path)[0] + ".txt"
output_file(file_path) == splitext(file_path)[1] \o ExtTxt

(***************************************************************************)
(* The directory.  Every file is in the current directory; its path is     *)
(* what os.walk('.') and os.path.join give, "./name".                      *)
(***************************************************************************)
CurDir == <<".">>

\* The files a directory scanned in batch mode may hold
BatchNames == {
    <<"a", ".", "m", "d">>,
    <<"a", ".", "m", "h", "t", "m", "l">>,
    <<"b", ".", "D", "O", "C", "X">>,
    <<".", "m", "d">> }

\* Further files that may be named on the command line
OtherNames == {
    <<"c", ".", "h", "t", "m", "l">>,
    <<"a">>,
    <<"a", ".", "t", "x", "t">>,
    <<"a", ".", "T", "X", "T">> }

InputPaths == {path_join(CurDir, n) : n \in BatchNames \cup OtherNames}

\* Every path of the model: the inputs and their output paths
Universe == InputPaths \cup {output_file(p) : p \in InputPaths}

\* The contents a file at path p can have initially
ContentsAt(p) == IF endswith1(p, ExtTxt) THEN {OldText} ELSE Docs

\* The file systems with at most MaxFiles files, drawn from the paths in U
FileSystems(U) ==
    UNION { {f \in [S -> Docs \cup {OldText}] : \A p \in S : f[p] \in ContentsAt(p)} :
            S \in {T \in SUBSET U : Cardinality(T) <= MaxFiles} }

\* file_ext and output_file of every path of the model, computed once
FileExt    == [p \in Universe |-> file_ext(p)]
OutputFile == [p \in Universe |-> output_file(p)]

\* A variant of output_exists that never skips
output_exists_never(fsys, file_path) == FALSE

\* if os.path.exists(output_file): skip
output_exists(fsys, file_path) == exists(fsys, OutputFile[file_path])

\* A variant of dispatch whose else branch does not return: an unsupported type
\* goes on to the write with an empty text
dispatch_fallthrough(ext, content, dps) ==
    IF ext = ExtMhtml
    THEN [extractor |-> "mhtml", r |-> MhtmlResult[content]]
    ELSE IF ext = ExtDocx
    THEN [extractor |-> "docx", r |-> DocxResult[content, dps]]
    ELSE IF ext = ExtMd
    THEN [extractor |-> "md", r |-> MdResult[content, dps]]
    ELSE IF ext = ExtHtml
    THEN [extractor |-> "html", r |-> HtmlResult[content]]
    ELSE [extractor |-> "none",
          r |-> [text |-> <<>>, printed |-> <<"ErrUnsupported">>, status |-> "ok"]]

\* The if/elif chain on ext: the extractor's result, or the unsupported branch
dispatch(ext, content, dps) ==
    IF ext = ExtMhtml
    THEN [extractor |-> "mhtml", r |-> MhtmlResult[content]]
    ELSE IF ext = ExtDocx
    THEN [extractor |-> "docx", r |-> DocxResult[content, dps]]
    ELSE IF ext = ExtMd
    THEN [extractor |-> "md", r |-> MdResult[content, dps]]
    ELSE IF ext = ExtHtml
    THEN [extractor |-> "html", r |-> HtmlResult[content]]
    ELSE [extractor |-> "none",
          r |-> [text |-> <<>>, printed |-> <<"ErrUnsupported">>, status |-> "unsupported"]]

\* What the environment does to the write: "ok"; "openfail", open() raises and
\* nothing is created; "partial", open() creates the file and write or close
\* raises, leaving it empty.
WriteOutcomes == {"ok", "openfail", "partial"}

\* A variant of write_output that writes nothing when the extracted text is empty
write_output_nonempty(fsys, out, text, w) ==
    IF text = <<>>
    THEN [fs |-> fsys, printed |-> <<"FailedWrite">>, outcome |-> "writefail"]
    ELSE IF w = "ok"
    THEN [fs |-> (out :> text) @@ fsys, printed |-> <<"Written">>, outcome |-> "written"]
    ELSE IF w = "partial"
    THEN [fs |-> (out :> <<>>) @@ fsys, printed |-> <<"FailedWrite">>, outcome |-> "writefail"]
    ELSE [fs |-> fsys, printed |-> <<"FailedWrite">>, outcome |-> "writefail"]

\* The try block around open(output_file, "w") and out.write
write_output(fsys, out, text, w) ==
    IF w = "ok"
    THEN [fs |-> (out :> text) @@ fsys, printed |-> <<"Written">>, outcome |-> "written"]
    ELSE IF w = "partial"
    THEN [fs |-> (out :> <<>>) @@ fsys, printed |-> <<"FailedWrite">>, outcome |-> "writefail"]
    ELSE [fs |-> fsys, printed |-> <<"FailedWrite">>, outcome |-> "writefail"]

NoCall == [path |-> <<>>, outcome |-> "none", extractor |-> "none", text |-> <<>>,
           printed |-> <<>>, w |-> "none", target |-> <<>>]

\* process_file(file_path) on file system fsys, with write outcome w and the
\* installed packages dps: the file system after it and the record of the call.
\* target is the path opened for writing, <<>> when none was.
process_file(fsys, file_path, w, dps) ==
    IF ~exists(fsys, file_path)
    THEN [fs |-> fsys,
          call |-> [NoCall EXCEPT !.path = file_path, !.outcome = "missing",
                                  !.printed = <<"ErrNotExist">>]]
    ELSE IF output_exists(fsys, file_path)
    THEN [fs |-> fsys,
          call |-> [NoCall EXCEPT !.path = file_path, !.outcome = "skip",
                                  !.printed = <<"Skipping">>]]
    ELSE LET d == dispatch(FileExt[file_path], fsys[file_path], dps)
         IN  IF d.r.status = "unsupported"
             THEN [fs |-> fsys,
                   call |-> [NoCall EXCEPT !.path = file_path, !.outcome = "unsupported",
                                           !.printed = d.r.printed]]
             ELSE IF d.r.status = "exit"
             THEN [fs |-> fsys,
                   call |-> [NoCall EXCEPT !.path = file_path, !.outcome = "exit",
                                           !.extractor = d.extractor,
                                           !.printed = <<"Processing">> \o d.r.printed]]
             ELSE LET wr == write_output(fsys, OutputFile[file_path], d.r.text, w)
                  IN  [fs |-> wr.fs,
                       call |-> [path |-> file_path, outcome |-> wr.outcome,
                                 extractor |-> d.extractor, text |-> d.r.text,
                                 printed |-> <<"Processing">> \o d.r.printed \o wr.printed,
                                 w |-> w, target |-> OutputFile[file_path]]]

(***************************************************************************)
(* Single-file mode: main with a file argument, any number of times.       *)
(***************************************************************************)
\* No batch has finished yet
NoBatch == [files |-> <<>>, calls |-> <<>>, fsStart |-> <<>>]

BatchOff == /\ pc = "off" /\ files = <<>> /\ idx = 0 /\ trace = <<>>
            /\ prev = NoBatch /\ fsStart = <<>>
ConcOff  == /\ procs = <<>> /\ fs0 = <<>> /\ writes = <<>>
MhtmlOff == /\ msg = <<>> /\ mpc = "off" /\ result = <<>> /\ reported = <<>>

\* The write outcomes to tell apart: all of them when the call gets to the
\* write, one when it does not
WriteChoices(fsys, file_path, dps) ==
    IF process_file(fsys, file_path, "ok", dps).call.w = "none"
    THEN {"ok"}
    ELSE WriteOutcomes

Init ==
    /\ fs \in FileSystems(Universe)
    /\ deps \in SUBSET Packages
    /\ call = NoCall
    /\ BatchOff /\ ConcOff /\ MhtmlOff

\* main() with args.file = file_path (lines 158-160)
MainFile ==
    \E file_path \in Universe :
      \E w \in WriteChoices(fs, file_path, deps) :
        LET r == process_file(fs, file_path, w, deps)
        IN  /\ fs' = r.fs
            /\ call' = r.call
            /\ UNCHANGED <<deps, batchVars, concVars, mhtmlVars>>

Next == MainFile

Spec == Init /\ [][Next]_vars

(***************************************************************************)
(* Batch mode: main without argument.  It scans, lists the files, asks,    *)
(* and on "yes" or "y" processes the list in order.  A batch that ends     *)
(* (the loop is exhausted, or an extractor calls sys.exit) is recorded in  *)
(* prev.                                                                   *)
(***************************************************************************)
\* The last component of a path: what os.walk lists in filenames
filename(p) == SubSeq(p, rfind(p, "/") + 1, Len(p))

Range(s) == {s[i] : i \in 1..Len(s)}

\* The lists without repetition of the elements of S: the orders in which
\* os.walk may yield them
Orderings(S) ==
    {s \in [1..Cardinality(S) -> S] : \A i, j \in 1..Cardinality(S) : s[i] = s[j] => i = j}

\* find_supported_files('.', supported_exts), as the set of lists it may return
find_supported_files(fsys) ==
    Orderings({p \in DOMAIN fsys : endswith(lower(filename(p)), supported_exts)})

BatchPaths == {path_join(CurDir, n) : n \in BatchNames}


\* What the operator may type at the prompt
Responses == { <<"y">>, <<"Y", "E", "S">>, <<" ", "y", "e", "s", " ">>,
               <<"n", "o">>, <<>>, <<"y", "e", "s", "!">> }

\* input(...).strip().lower() in ('yes', 'y')
confirmed(response) == lower(strip(response)) \in { <<"y", "e", "s">>, <<"y">> }

BatchInit ==
    /\ fs \in FileSystems(BatchPaths)
    /\ deps \in SUBSET Packages
    /\ call = NoCall
    /\ pc = "idle" /\ files = <<>> /\ idx = 0 /\ trace = <<>>
    /\ prev = NoBatch /\ fsStart = <<>>
    /\ ConcOff /\ MhtmlOff

\* main(), lines 163-170: the scan; nothing found, or the list is printed
MainScan ==
    /\ pc = "idle"
    /\ \E found \in find_supported_files(fs) :
          IF found = <<>>
          THEN UNCHANGED <<pc, files, idx, fsStart>>
          ELSE /\ pc' = "prompt"
               /\ files' = found
               /\ idx' = 1
               /\ fsStart' = fs
    /\ UNCHANGED <<fs, deps, call, trace, prev, concVars, mhtmlVars>>

\* main(), lines 171-177: the answer to the prompt
MainRespond ==
    /\ pc = "prompt"
    /\ \E response \in Responses :
          IF confirmed(response)
          THEN pc' = "loop" /\ UNCHANGED <<files, idx, fsStart>>
          ELSE pc' = "idle" /\ files' = <<>> /\ idx' = 0 /\ fsStart' = <<>>
    /\ UNCHANGED <<fs, deps, call, trace, prev, concVars, mhtmlVars>>

\* main(), lines 174-175: one iteration of the loop, process_file(files[idx]).
\* sys.exit in an extractor ends the process; so does the end of the list.
MainProcessNext ==
    /\ pc = "loop"
    /\ \E w \in WriteChoices(fs, files[idx], deps) :
          LET r == process_file(fs, files[idx], w, deps)
              calls == Append(trace, r.call)
          IN  /\ fs' = r.fs
              /\ call' = r.call
              /\ IF r.call.outcome = "exit" \/ idx = Len(files)
                 THEN /\ pc' = "idle"
                      /\ prev' = [files |-> files, calls |-> calls, fsStart |-> fsStart]
                      /\ files' = <<>> /\ idx' = 0 /\ trace' = <<>> /\ fsStart' = <<>>
                 ELSE /\ idx' = idx + 1
                      /\ trace' = calls
                      /\ UNCHANGED <<pc, files, prev, fsStart>>
    /\ UNCHANGED <<deps, concVars, mhtmlVars>>

BatchNext == MainScan \/ MainRespond \/ MainProcessNext

BatchSpec == BatchInit /\ [][BatchNext]_vars

\* The step of the for loop, seen through its position: idx moves on, or the
\* batch ends.  While pc = "loop" the steps of BatchNext are the steps of
\* MainProcessNext, and each of them is such a step.
LoopAdvance == pc = "loop" /\ (idx' = idx + 1 \/ idx' = 0)

\* The loop of a confirmed batch runs on: nothing in main waits or gives up
FairBatchSpec == BatchSpec /\ WF_idx(LoopAdvance)

(***************************************************************************)
(* Two invocations of process_file made concurrently by a caller, on       *)
(* different paths.  An invocation takes three steps: the existence checks *)
(* (lines 104-111), the extraction (lines 113-127) and the write (lines    *)
(* 129-134).  Each invocation has its own local variables; w is what the   *)
(* environment does to its write.                                          *)
(***************************************************************************)
ConcPaths == {path_join(CurDir, n) : n \in BatchNames}
                 \cup {output_file(path_join(CurDir, n)) : n \in BatchNames}

Invocation(file_path, w) ==
    [path |-> file_path, pc |-> "start", text |-> <<>>, outcome |-> "none", w |-> w]

ConcInit ==
    /\ fs \in FileSystems(ConcPaths)
    /\ deps \in SUBSET Packages
    /\ call = NoCall
    /\ fs0 = fs
    /\ writes = <<>>
    /\ \E p1 \in ConcPaths, p2 \in ConcPaths, w1 \in WriteOutcomes, w2 \in WriteOutcomes :
          /\ p1 # p2
          /\ procs = <<Invocation(p1, w1), Invocation(p2, w2)>>
    /\ BatchOff /\ MhtmlOff

\* Lines 104-111: the input must exist and the output must not
ConcCheck(i) ==
    /\ procs[i].pc = "start"
    /\ procs' = [procs EXCEPT ![i] =
          IF ~exists(fs, procs[i].path)
          THEN [@ EXCEPT !.pc = "done", !.outcome = "missing"]
          ELSE IF output_exists(fs, procs[i].path)
          THEN [@ EXCEPT !.pc = "done", !.outcome = "skip"]
          ELSE [@ EXCEPT !.pc = "checked"]]
    /\ UNCHANGED <<fs, deps, call, fs0, writes, batchVars, mhtmlVars>>

\* Lines 113-127: the extractor chosen by the extension runs
ConcExtract(i) ==
    /\ procs[i].pc = "checked"
    /\ LET d == dispatch(FileExt[procs[i].path], fs[procs[i].path], deps)
       IN  procs' = [procs EXCEPT ![i] =
              IF d.r.status \in {"unsupported", "exit"}
              THEN [@ EXCEPT !.pc = "done", !.outcome = d.r.status]
              ELSE [@ EXCEPT !.pc = "extracted", !.text = d.r.text]]
    /\ UNCHANGED <<fs, deps, call, fs0, writes, batchVars, mhtmlVars>>

\* A variant of text_to_write in which extracted_text is one variable shared by
\* the invocations: it holds what the other invocation extracted, if it did
text_to_write_shared(ps, i) ==
    IF ps[3 - i].pc \in {"extracted", "done"} /\ ps[3 - i].outcome \in {"none", "written", "writefail"}
    THEN ps[3 - i].text
    ELSE ps[i].text

\* out.write(extracted_text): extracted_text is a local variable of the invocation
text_to_write(ps, i) == ps[i].text

\* Lines 129-134: open(output_file, "w") creates or truncates, then the write
ConcWrite(i) ==
    /\ procs[i].pc = "extracted"
    /\ LET out == OutputFile[procs[i].path]
           wr  == write_output(fs, out, text_to_write(procs, i), procs[i].w)
       IN  /\ fs' = wr.fs
           /\ procs' = [procs EXCEPT ![i] = [@ EXCEPT !.pc = "done", !.outcome = wr.outcome]]
           /\ writes' = IF procs[i].w = "openfail" THEN writes
                        ELSE IF out \in DOMAIN writes
                        THEN [writes EXCEPT ![out] = @ + 1]
                        ELSE (out :> 1) @@ writes
    /\ UNCHANGED <<deps, call, fs0, batchVars, mhtmlVars>>

ConcNext == \E i \in {1, 2} : ConcCheck(i) \/ ConcExtract(i) \/ ConcWrite(i)

ConcSpec == ConcInit /\ [][ConcNext]_vars

(***************************************************************************)
(* extract_text_from_mhtml on the messages of up to MaxParts sub-parts.    *)
(***************************************************************************)
\* The sequences over S of length at most n
RECURSIVE SeqsUpTo(_, _)
SeqsUpTo(S, n) ==
    IF n = 0 THEN { <<>> }
    ELSE LET shorter == SeqsUpTo(S, n - 1)
         IN  shorter \cup {Append(s, x) : s \in shorter, x \in S}

\* What the parser may return: a failure to open or parse the file, a message
\* that is not multipart, or a multipart message
Messages ==
    { [parse_ok |-> FALSE, multipart |-> FALSE, parts |-> <<>>] }
    \cup { [parse_ok |-> TRUE, multipart |-> FALSE, parts |-> <<p>>] : p \in PartKinds }
    \cup { [parse_ok |-> TRUE, multipart |-> TRUE, parts |-> s] :
           s \in SeqsUpTo(PartKinds, MaxParts) }

MhtmlInit ==
    /\ msg \in Messages
    /\ mpc = "ready"
    /\ result = <<>>
    /\ reported = <<>>
    /\ fs = <<>> /\ deps = {} /\ call = NoCall
    /\ BatchOff /\ ConcOff

\* Lines 29-34: the first try block
MhtmlParse ==
    /\ mpc = "ready"
    /\ IF msg.parse_ok
       THEN mpc' = "parsed" /\ UNCHANGED <<result, reported>>
       ELSE /\ mpc' = "done"
            /\ result' = extract_text_from_mhtml(msg).text
            /\ reported' = extract_text_from_mhtml(msg).printed
    /\ UNCHANGED <<msg, fsVars, batchVars, concVars>>

\* Lines 36-57: the second try block
MhtmlExtract ==
    /\ mpc = "parsed"
    /\ mpc' = "done"
    /\ result' = extract_text_from_mhtml(msg).text
    /\ reported' = extract_text_from_mhtml(msg).printed
    /\ UNCHANGED <<msg, fsVars, batchVars, concVars>>

MhtmlNext == MhtmlParse \/ MhtmlExtract

MhtmlSpec == MhtmlInit /\ [][MhtmlNext]_vars

(***************************************************************************)
(* Properties of process_file in single-file mode (specification Spec).    *)
(* In a step, fs is the file system before the call and call' the record   *)
(* of the call.                                                            *)
(***************************************************************************)
Has(printed, m) == \E i \in 1..Len(printed) : printed[i] = m

\* A message of an extractor's except branch was printed
FailureReported(printed) ==
    Has(printed, "FailedParse") \/ Has(printed, "FailedExtract") \/ Has(printed, "FailedRead")

\* The extractor for file_path cannot be imported
DependencyMissing(file_path) ==
    \/ file_ext(file_path) = ExtDocx /\ "docx" \notin deps
    \/ file_ext(file_path) = ExtMd /\ "markdown" \notin deps

\* C1: a call of process_file on an existing input of a supported type whose
\* output path exists invokes no extractor and changes nothing; and no call
\* ever removes a file or changes the content of a file that exists.
C1_ExistingOutputKept ==
    [][ /\ \A q \in DOMAIN fs : q \in DOMAIN fs' /\ fs'[q] = fs[q]
        /\ LET p == call'.path
           IN  ( /\ exists(fs, p)
                 /\ FileExt[p] \in supported_exts
                 /\ exists(fs, OutputFile[p]) )
               => /\ call'.extractor = "none"
                  /\ call'.printed = <<"Skipping">>
                  /\ fs' = fs ]_vars

\* C1 witness: a .DOCX input was skipped because its output path held a file
C1_Witness ==
    /\ call.outcome = "skip"
    /\ file_ext(call.path) = ExtDocx
    /\ exists(fs, call.path)
    /\ fs[output_file(call.path)] = OldText

\* C4 as stated: on an existing input of an unsupported type, process_file
\* writes nothing and reports the unsupported-type error, in every state of the
\* file system.
C4_Original ==
    [][ LET p == call'.path
        IN  (exists(fs, p) /\ FileExt[p] \notin supported_exts)
            => fs' = fs /\ Has(call'.printed, "ErrUnsupported") ]_vars

\* C4 as amended: on an existing input of an unsupported type, process_file
\* writes nothing; it reports the unsupported-type error when no file exists at
\* the output path, and otherwise reports the skip and no error.
C4_UnsupportedWritesNothing ==
    [][ LET p == call'.path
        IN  (exists(fs, p) /\ FileExt[p] \notin supported_exts)
            => /\ fs' = fs
               /\ call'.target = <<>>
               /\ call'.extractor = "none"
               /\ ~exists(fs, OutputFile[p]) => call'.printed = <<"ErrUnsupported">>
               /\ exists(fs, OutputFile[p]) => call'.printed = <<"Skipping">> ]_vars

\* C4 witness: an input without extension was refused as unsupported
C4_Witness ==
    /\ call.outcome = "unsupported"
    /\ file_ext(call.path) = <<>>
    /\ exists(fs, call.path)
    /\ ~exists(fs, output_file(call.path))

\* C5: when the extractor of a supported input fails (the document is one the
\* library rejects, the package being installed), the failure is printed, the
\* extracted text is empty, and if the output did not exist and the write
\* succeeds the output file is created empty; the next call on the same input
\* skips without invoking an extractor.
C5_FailureWritesEmpty ==
    [][ LET p == call'.path
        IN  /\ ( /\ exists(fs, p)
                 /\ ~exists(fs, OutputFile[p])
                 /\ FileExt[p] \in supported_exts
                 /\ fs[p] = DocBad
                 /\ ~DependencyMissing(p) )
               => /\ call'.extractor # "none"
                  /\ FailureReported(call'.printed)
                  /\ call'.text = <<>>
                  /\ call'.w = "ok" => fs' = (OutputFile[p] :> <<>>) @@ fs
            /\ ( /\ call.outcome = "written"
                 /\ FailureReported(call.printed)
                 /\ p = call.path )
               => /\ call'.extractor = "none"
                  /\ call'.printed = <<"Skipping">>
                  /\ fs' = fs ]_vars

\* C5 witness: an undecodable MHTML file was written out as an empty file
C5_Witness ==
    /\ call.outcome = "written"
    /\ call.extractor = "mhtml"
    /\ Has(call.printed, "FailedExtract")
    /\ fs[call.target] = <<>>

\* C8: a call changes the file system at most at one path, the one it opened
\* for writing, which is the input path with its extension replaced by .txt and
\* differs from the input path; the input file stays as it was.
C8_InputUntouched ==
    [][ LET p == call'.path
            expected == splitext(p)[1] \o ExtTxt
        IN  /\ \A q \in DOMAIN fs' :
                   (q \notin DOMAIN fs \/ fs'[q] # fs[q])
                   => q = call'.target /\ q = expected /\ q # p
            /\ DOMAIN fs \subseteq DOMAIN fs'
            /\ call'.target # <<>> => call'.target = expected /\ call'.target # p
            /\ exists(fs, p) => fs'[p] = fs[p] ]_vars

\* C8 witness: a write happened next to an input that is still there
C8_Witness ==
    /\ call.outcome = "written"
    /\ call.target # call.path
    /\ exists(fs, call.path)
    /\ exists(fs, call.target)

(***************************************************************************)
(* Properties of batch mode (specifications BatchSpec and FairBatchSpec).  *)
(***************************************************************************)
\* The extractor of the call returned: the extraction was performed
Extracted(c) == c.outcome \in {"written", "writefail"}

\* The call left a file at its output path
Created(c) == c.outcome = "written" \/ (c.outcome = "writefail" /\ c.w = "partial")

\* The calls of batch b on file f
CallsOn(b, f) == {i \in 1..Len(b.calls) : b.calls[i].path = f}

\* How often batch b extracted file f
Extractions(b, f) == Cardinality({i \in CallsOn(b, f) : Extracted(b.calls[i])})

\* The step that ends a confirmed batch that follows another: prev is the first
\* of the two batches, prev' the second
SecondBatchEnds == pc = "loop" /\ pc' = "idle" /\ prev # NoBatch

Alone(b, f) ==
    /\ file_ext(f) \in supported_exts
    /\ deps = Packages
    /\ ~exists(b.fsStart, output_file(f))
    /\ \A g \in Range(b.files) \ {f} : output_file(g) # output_file(f)

Finished(b) ==
    LET n == Len(b.calls)
    IN  /\ n >= 1
        /\ n <= Len(b.files)
        /\ \A i \in 1..n : b.calls[i].path = b.files[i]
        /\ \A i \in 1..n :
               b.calls[i].outcome = "exit"
               <=> ( /\ b.calls[i].extractor \in {"docx", "md"}
                     /\ DependencyMissing(b.calls[i].path) )
        /\ \A i \in 1..n : b.calls[i].outcome = "exit" => i = n
        /\ n < Len(b.files) => b.calls[n].outcome = "exit"

\* C6: a confirmed batch calls process_file on the files of the list in list
\* order, one call per step, and goes on to the end of the list whatever the
\* outcome of a call; only the sys.exit of an extractor whose package is
\* missing ends it earlier.  Every confirmed batch ends.
C6_BatchRunsThrough ==
    /\ [](pc = "loop" => /\ idx = Len(trace) + 1
                         /\ idx <= Len(files)
                         /\ \A i \in 1..Len(trace) :
                                /\ trace[i].path = files[i]
                                /\ trace[i].outcome # "exit")
    /\ [](prev # NoBatch => Finished(prev))
    /\ [][pc = "loop" /\ pc' = "idle" => prev'.files = files]_vars
    /\ (pc = "loop" ~> pc = "idle")

\* C6 witness: a batch went through its list although the first call found an
\* unsupported type and the second call's write failed
C6_Witness ==
    /\ pc = "idle"
    /\ Len(prev.calls) = 2
    /\ prev.calls[1].outcome = "unsupported"
    /\ prev.calls[2].outcome = "writefail"
    /\ FailureReported(prev.calls[2].printed)

\* C10 as stated: every file find_supported_files returns is of a type the
\* dispatcher supports, so no call of a batch ends in the unsupported branch.
C10_Original ==
    /\ \A i \in 1..Len(files) : file_ext(files[i]) \in supported_exts
    /\ \A i \in 1..Len(trace) : trace[i].outcome # "unsupported"

(***************************************************************************)
(* Properties of concurrent invocations (specification ConcSpec).          *)
(***************************************************************************)
AllDone == procs # <<>> /\ \A i \in 1..Len(procs) : procs[i].pc = "done"

\* The file system after invocation i and then invocation j, one after the
\* other, from the initial file system
OneAfterTheOther(i, j) ==
    process_file(process_file(fs0, procs[i].path, procs[i].w, deps).fs,
                 procs[j].path, procs[j].w, deps).fs

\* However the two invocations interleave, the files are those of either order
\* of two calls in sequence, and no path was opened for writing twice
OrderIndependent ==
    /\ fs = OneAfterTheOther(1, 2)
    /\ fs = OneAfterTheOther(2, 1)
    /\ \A q \in DOMAIN writes : writes[q] <= 1

Contribution(part) ==
    IF part.ctype = "text/html" THEN <<get_text(part.body)>>
    ELSE IF part.ctype = "text/plain" THEN <<part.body>>
    ELSE <<>>

RECURSIVE Fragments(_)
Fragments(parts) ==
    IF parts = <<>> THEN <<>> ELSE Contribution(Head(parts)) \o Fragments(Tail(parts))

Returned == mpc = "done" /\ msg.parse_ok

\* C7: for a multipart message the result is the contributions of the visited
\* parts, in walk order, joined by two newlines.
C7_Original ==
    (Returned /\ msg.multipart) => result = join(<<NL, NL>>, Fragments(walk(msg)))

\* C9: a message without text/html and text/plain content, all of whose parts
\* are of a type that is not text (image/png), gives the empty string and no
\* failure message, be it multipart or not.
C9_Original ==
    ( /\ Returned
      /\ \A i \in 1..Len(msg.parts) : msg.parts[i].ctype \in {"image/png", "multipart/related"}
      /\ ~msg.multipart => msg.parts[1].ctype = "image/png" )
    => result = <<>> /\ reported = <<>>

=============================================================================
